---- MODULE Spec2Model ----
(***************************************************************************)
(* Model of repoman's artifact catalog (repoman/common/artifact.py), its   *)
(* version ordering (repoman/common/utils.py) and the retention commands   *)
(* of repoman/cmd.py.                                                      *)
(*                                                                         *)
(* A Python string is a sequence of one-character strings, so that         *)
(* splitting on '-' and '.', the int() parse of a segment and the          *)
(* comparison of the parsed lists are computed the way the code computes   *)
(* them.  The code is Python 2 (xrange, itervalues, list-returning keys()).*)
(***************************************************************************)
EXTENDS Integers, Sequences, FiniteSets, TLC

(***************************************************************************)
(* Characters, in ASCII order: '-' < '.' < '0'..'9' < 'a'..'z'.            *)
(***************************************************************************)
Chars ==
    << "-", ".", "0", "1", "2", "3", "4", "5", "6", "7", "8", "9",
       "a", "b", "c", "d", "e", "f", "g", "h", "i", "j", "k", "l", "m",
       "n", "o", "p", "q", "r", "s", "t", "u", "v", "w", "x", "y", "z" >>

Ord(c) == CHOOSE i \in 1..Len(Chars) : Chars[i] = c

Digits == {"0", "1", "2", "3", "4", "5", "6", "7", "8", "9"}

IsDigits(s) == Len(s) > 0 /\ \A i \in 1..Len(s) : s[i] \in Digits

Tail2(s) == SubSeq(s, 2, Len(s))

\* index of the first occurrence of sep in s, 0 when there is none
RECURSIVE FindFrom(_, _, _)
FindFrom(s, sep, i) ==
    IF i > Len(s) THEN 0
    ELSE IF s[i] = sep THEN i
    ELSE FindFrom(s, sep, i + 1)

\* str.split(sep, maxsplit); maxsplit = -1 splits at every occurrence
RECURSIVE PySplit(_, _, _)
PySplit(s, sep, maxsplit) ==
    LET i == FindFrom(s, sep, 1) IN
    IF maxsplit = 0 \/ i = 0 THEN << s >>
    ELSE << SubSeq(s, 1, i - 1) >>
         \o PySplit(SubSeq(s, i + 1, Len(s)), sep, maxsplit - 1)

\* utils.split(what, separator, num_results)
split(what, separator, num_results) ==
    LET res == PySplit(what, separator, num_results)
    IN  res \o [i \in 1..(num_results - Len(res) + 1) |-> << >>]

\* a decimal literal without its leading zeros: the value of an
\* arbitrary-precision non-negative integer
RECURSIVE StripZeros(_)
StripZeros(s) ==
    IF Len(s) > 0 /\ s[1] = "0" THEN StripZeros(Tail2(s)) ELSE s

IntSeg(neg, digits) ==
    LET mag == StripZeros(digits)
    IN  [kind |-> "int", neg |-> (neg /\ Len(mag) > 0), mag |-> mag, s |-> << >>]

StrSeg(s) == [kind |-> "str", neg |-> FALSE, mag |-> << >>, s |-> s]

\* utils.tryint: int(mayint), or the string itself on ValueError
tryint(mayint) ==
    IF IsDigits(mayint) THEN IntSeg(FALSE, mayint)
    ELSE IF Len(mayint) > 1 /\ mayint[1] = "-" /\ IsDigits(Tail2(mayint))
         THEN IntSeg(TRUE, Tail2(mayint))
    ELSE StrSeg(mayint)

\* cmp() of two Python strings: lexicographic by character code
RECURSIVE CmpStr(_, _)
CmpStr(x, y) ==
    IF Len(x) = 0 /\ Len(y) = 0 THEN 0
    ELSE IF Len(x) = 0 THEN -1
    ELSE IF Len(y) = 0 THEN 1
    ELSE IF Ord(x[1]) < Ord(y[1]) THEN -1
    ELSE IF Ord(x[1]) > Ord(y[1]) THEN 1
    ELSE CmpStr(Tail2(x), Tail2(y))

\* cmp() of two magnitudes without leading zeros
CmpMag(x, y) ==
    IF Len(x) < Len(y) THEN -1
    ELSE IF Len(x) > Len(y) THEN 1
    ELSE CmpStr(x, y)

CmpInt(x, y) ==
    IF x.neg /\ ~y.neg THEN -1
    ELSE IF ~x.neg /\ y.neg THEN 1
    ELSE IF x.neg THEN CmpMag(y.mag, x.mag)
    ELSE CmpMag(x.mag, y.mag)

\* cmp() of two list elements in Python 2: two ints by value, two strings
\* lexicographically, and an int (or long) below every string
CmpElemMixedLess(x, y) ==
    IF x.kind = "int" /\ y.kind = "int" THEN CmpInt(x, y)
    ELSE IF x.kind = "str" /\ y.kind = "str" THEN CmpStr(x.s, y.s)
    ELSE -1

CmpElemLexical(x, y) ==
    IF x.kind = "int" /\ y.kind = "int"
    THEN CmpStr(IF x.neg THEN << "-" >> \o x.mag ELSE x.mag,
                IF y.neg THEN << "-" >> \o y.mag ELSE y.mag)
    ELSE IF x.kind = "str" /\ y.kind = "str" THEN CmpStr(x.s, y.s)
    ELSE IF x.kind = "int" THEN -1
    ELSE 1

CmpElem(x, y) ==
    IF x.kind = "int" /\ y.kind = "int" THEN CmpInt(x, y)
    ELSE IF x.kind = "str" /\ y.kind = "str" THEN CmpStr(x.s, y.s)
    ELSE IF x.kind = "int" THEN -1
    ELSE 1

\* cmp() of two Python lists: the first differing pair decides, a proper
\* prefix is the lesser
RECURSIVE CmpList(_, _)
CmpList(l1, l2) ==
    IF Len(l1) = 0 /\ Len(l2) = 0 THEN 0
    ELSE IF Len(l1) = 0 THEN -1
    ELSE IF Len(l2) = 0 THEN 1
    ELSE LET c == CmpElem(l1[1], l2[1])
         IN  IF c # 0 THEN c ELSE CmpList(Tail2(l1), Tail2(l2))

\* the list of parsed segments cmpver builds from one version part
Segments(ver) ==
    LET parts == IF FindFrom(ver, ".", 1) # 0 THEN PySplit(ver, ".", -1)
                 ELSE << ver >>
    IN  [i \in 1..Len(parts) |-> tryint(parts[i])]

cmpver(ver1, ver2) ==
    LET c == CmpList(Segments(ver1), Segments(ver2))
    IN  IF c > 0 THEN 1 ELSE IF c = 0 THEN 0 ELSE -1

cmpfullver(fullver1, fullver2) ==
    LET p1 == split(fullver1, "-", 1)
        p2 == split(fullver2, "-", 1)
        ver_res == cmpver(p1[1], p2[1])
    IN  IF ver_res # 0 THEN ver_res ELSE cmpver(p1[2], p2[2])

(***************************************************************************)
(* Version strings: the ones of the unit test and of the documentation,    *)
(* and every string of at most MaxLen characters over GenAlphabet.         *)
(***************************************************************************)
\* "1.0"
v1_0 ==
    << "1", ".", "0" >>

\* "1.1"
v1_1 ==
    << "1", ".", "1" >>

\* "1.5"
v1_5 ==
    << "1", ".", "5" >>

\* "2.0"
v2_0 ==
    << "2", ".", "0" >>

\* "2.1"
v2_1 ==
    << "2", ".", "1" >>

\* "3.0"
v3_0 ==
    << "3", ".", "0" >>

\* "1.9-1"
v1_9__1 ==
    << "1", ".", "9", "-", "1" >>

\* "1.10-1"
v1_10__1 ==
    << "1", ".", "1", "0", "-", "1" >>

\* "1.01-1"
v1_01__1 ==
    << "1", ".", "0", "1", "-", "1" >>

\* "1.1-1"
v1_1__1 ==
    << "1", ".", "1", "-", "1" >>

\* "0.0-1.el7"
v0_0__1_el7 ==
    << "0", ".", "0", "-", "1", ".", "e", "l", "7" >>

\* "0.1-1.el7"
v0_1__1_el7 ==
    << "0", ".", "1", "-", "1", ".", "e", "l", "7" >>

\* "1.0-1.el7"
v1_0__1_el7 ==
    << "1", ".", "0", "-", "1", ".", "e", "l", "7" >>

\* "1.0-1.el7.centos"
v1_0__1_el7_centos ==
    << "1", ".", "0", "-", "1", ".", "e", "l", "7", ".", "c", "e", "n", "t", "o", "s" >>

\* "1.0-1.20170103101841.centos"
v1_0__1_20170103101841_centos ==
    << "1", ".", "0", "-", "1", ".", "2", "0", "1", "7", "0", "1", "0", "3", "1", "0", "1", "8", "4", "1", ".", "c", "e", "n", "t", "o", "s" >>

\* "0.0-1.el7.centos"
v0_0__1_el7_centos ==
    << "0", ".", "0", "-", "1", ".", "e", "l", "7", ".", "c", "e", "n", "t", "o", "s" >>

\* "0.1-1.el7.centos"
v0_1__1_el7_centos ==
    << "0", ".", "1", "-", "1", ".", "e", "l", "7", ".", "c", "e", "n", "t", "o", "s" >>

\* "1.0-1.20180103101841.centos"
v1_0__1_20180103101841_centos ==
    << "1", ".", "0", "-", "1", ".", "2", "0", "1", "8", "0", "1", "0", "3", "1", "0", "1", "8", "4", "1", ".", "c", "e", "n", "t", "o", "s" >>

\* "1.0-1.20180103101841.git17e7bc0.el7.centos"
v1_0__1_20180103101841_git17e7bc0_el7_centos ==
    << "1", ".", "0", "-", "1", ".", "2", "0", "1", "8", "0", "1", "0", "3", "1", "0", "1", "8", "4", "1", ".", "g", "i", "t", "1", "7", "e", "7", "b", "c", "0", ".", "e", "l", "7", ".", "c", "e", "n", "t", "o", "s" >>

NamedVersions ==
    { v1_0,
      v1_1,
      v1_5,
      v2_0,
      v2_1,
      v3_0,
      v1_9__1,
      v1_10__1,
      v1_01__1,
      v1_1__1,
      v0_0__1_el7,
      v0_1__1_el7,
      v1_0__1_el7,
      v1_0__1_el7_centos,
      v1_0__1_20170103101841_centos,
      v0_0__1_el7_centos,
      v0_1__1_el7_centos,
      v1_0__1_20180103101841_centos,
      v1_0__1_20180103101841_git17e7bc0_el7_centos }

MaxLen == 2

GenAlphabet == {"1", "a", ".", "-"}

GenStrings == UNION { [1..k -> GenAlphabet] : k \in 0..MaxLen }

VersionPool == NamedVersions \cup GenStrings

\* cmpfullver tabulated over the pool
CmpTable == [p \in VersionPool \X VersionPool |-> cmpfullver(p[1], p[2])]

Cmp(a, b) == CmpTable[<< a, b >>]

(***************************************************************************)
(* The catalog.  A dict is a function whose domain is its set of keys, an  *)
(* ArtifactInode (a list) is a sequence of artifacts.                      *)
(***************************************************************************)
VARIABLES
    repo,       \* the ArtifactList: name -> version -> inode -> members
    fs,         \* the paths that exist on disk
    last,       \* the last operation called, its arguments and what it returned
    nadds,      \* the number of add_pkg calls made so far
    hist,       \* SpecIngest: how often each (name, version, inode) was added
    cmp_a,      \* SpecCmp: the two version strings compared ...
    cmp_b,
    cmp_res,    \* ... and what cmpfullver returned for them
    pc,         \* SpecCli: where the run of the command line is
    cli,        \* its arguments, and the sources do_add has yet to add
    saved,      \* the index as repo.save() last persisted it
    calls,      \* the calls the run made on the repository, in order
    exit_code,  \* what the run passed to sys.exit (-1: it did not exit yet)
    dl          \* SpecDownload: the call of utils.download in progress

vars == << repo, fs, last, nadds, hist, cmp_a, cmp_b, cmp_res,
           pc, cli, saved, calls, exit_code, dl >>

cliVars == << pc, cli, saved, calls, exit_code >>

catalogVars == << repo, fs, last, nadds, hist >>

cmpVars == << cmp_a, cmp_b, cmp_res >>

EmptyDict == << >>

Put(d, k, v) == [x \in DOMAIN d \cup {k} |-> IF x = k THEN v ELSE d[x]]

Pop(d, k) == [x \in DOMAIN d \ {k} |-> d[x]]

\* the value of artifact.name for an artifact that has no name
NoneName == "None"

Names == {"foo", "bar"}

Inodes == {1, 2}

\* the versions the artifacts of the model carry
CatVersions == {"1.0", "1.5", "2.0", "3.0"}

\* two more versions, whose segments parse to the same integers
TieVersions == {"1.01-1", "1.1-1"}

KeyVersions == CatVersions \cup TieVersions

\* the characters of a version of KeyVersions
VersionChars(v) ==
    CASE v = "1.0" -> v1_0
      [] v = "1.5" -> v1_5
      [] v = "2.0" -> v2_0
      [] v = "3.0" -> v3_0
      [] v = "1.01-1" -> v1_01__1
      [] v = "1.1-1" -> v1_1__1

\* an Artifact: one file, its path, and what was derived from it
Artifact(n, v, i, link) ==
    [name |-> n, version |-> v, inode |-> i, path |-> << n, v, i, link >>]

\* the artifacts that can be ingested: "foo" has one file of every version,
\* and of version 1.0 also a hard link of that file and a file of another
\* inode; "bar" has one file; one artifact has no name
Artifacts ==
    { Artifact("foo", v, 1, "a") : v \in CatVersions }
    \cup { Artifact("foo", "1.0", 1, "b"), Artifact("foo", "1.0", 2, "a") }
    \cup { Artifact("bar", "1.0", 1, "a") }
    \cup { Artifact(NoneName, "1.0", 1, "a") }

\* one file of each of the versions of TieVersions
TieArtifacts == { Artifact("foo", v, 1, "a") : v \in TieVersions }

AllPaths == { a.path : a \in Artifacts \cup TieArtifacts }

\* cmpfullver tabulated over the versions of the artifacts
KeyCmpTable ==
    [p \in KeyVersions \X KeyVersions |->
        cmpfullver(VersionChars(p[1]), VersionChars(p[2]))]

\* the order of the keys of a name index: the version ordering
KeyCmp(a, b) == KeyCmpTable[<< a, b >>]

\* artifact.ver_rel: the version-release string, which is the key
ver_rel(artifact) == artifact.version

\* every (name, version, inode, position) of the index
Entries(list) ==
    UNION { UNION { UNION { { << n, v, i, k >> : k \in 1..Len(list[n][v][i]) }
                            : i \in DOMAIN list[n][v] }
                    : v \in DOMAIN list[n] }
            : n \in DOMAIN list }

\* ---- ArtifactInode ----

InodeDeleteIgnoringNoop(group, noop, files) ==
    files \ { group[k].path : k \in 1..Len(group) }

\* ArtifactInode.delete: the files left on disk
InodeDelete(group, noop, files) ==
    IF noop THEN files
    ELSE files \ { group[k].path : k \in 1..Len(group) }

\* ---- ArtifactVersion ----

VersionAddArtifactNewGroup(bucket, artifact) ==
    [self |-> Put(bucket, artifact.inode, << artifact >>), ret |-> "True"]

\* ArtifactVersion.add_artifact
VersionAddArtifact(bucket, artifact) ==
    LET b1 == IF artifact.inode \notin DOMAIN bucket
              THEN Put(bucket, artifact.inode, << >>)
              ELSE bucket
    IN  [self |-> Put(b1, artifact.inode, Append(b1[artifact.inode], artifact)),
         ret  |-> "True"]

\* ArtifactVersion.delete_inode
VersionDeleteInode(bucket, inode, noop, files) ==
    IF inode \in DOMAIN bucket
    THEN [self |-> Pop(bucket, inode),
          fs   |-> InodeDelete(bucket[inode], noop, files)]
    ELSE [self |-> bucket, fs |-> files]

\* the loop "for inode in self[version].keys(): delete_inode(inode, noop)"
RECURSIVE DeleteInodes(_, _, _, _)
DeleteInodes(bucket, inodes, noop, files) ==
    IF inodes = {} THEN [self |-> bucket, fs |-> files]
    ELSE LET i == CHOOSE x \in inodes : TRUE
             r == VersionDeleteInode(bucket, i, noop, files)
         IN  DeleteInodes(r.self, inodes \ {i}, noop, r.fs)

\* ---- ArtifactName ----

\* ArtifactName.add_artifact
NameAddArtifact(nm, artifact, onlyifnewer) ==
    IF onlyifnewer
       /\ ( ver_rel(artifact) \in DOMAIN nm
            \/ \E ver \in DOMAIN nm : KeyCmp(ver, artifact.version) <= 0 )
    THEN [self |-> nm, ret |-> "False"]
    ELSE LET n1 == IF artifact.version \notin DOMAIN nm
                   THEN Put(nm, artifact.version, EmptyDict)
                   ELSE nm
             r  == VersionAddArtifact(n1[artifact.version], artifact)
         IN  [self |-> Put(n1, artifact.version, r.self), ret |-> r.ret]

get_latestAll(nm, num) ==
    IF DOMAIN nm = {} THEN { [none |-> TRUE, keys |-> {}] }
    ELSE { [none |-> FALSE, keys |-> DOMAIN nm] }

get_latestOldest(nm, num) ==
    IF DOMAIN nm = {} THEN { [none |-> TRUE, keys |-> {}] }
    ELSE LET len == Cardinality(DOMAIN nm)
             n0  == IF num = 0 THEN len ELSE num
             n   == IF n0 > len THEN len ELSE n0
         IN  { [none |-> FALSE, keys |-> S] :
                 S \in { T \in SUBSET DOMAIN nm :
                           /\ Cardinality(T) = (IF n < 0 THEN 0 ELSE n)
                           /\ \A a \in T, b \in DOMAIN nm \ T :
                                  KeyCmp(a, b) <= 0 } }

\* ArtifactName.get_latest: what it can return, None for an empty index, else
\* the first num keys of the keys sorted in descending order (keys that
\* compare equal come in the order of the dict, which is arbitrary)
get_latest(nm, num) ==
    IF DOMAIN nm = {} THEN { [none |-> TRUE, keys |-> {}] }
    ELSE LET len == Cardinality(DOMAIN nm)
             n0  == IF num = 0 THEN len ELSE num
             n   == IF n0 > len THEN len ELSE n0
         IN  { [none |-> FALSE, keys |-> S] :
                 S \in { T \in SUBSET DOMAIN nm :
                           /\ Cardinality(T) = (IF n < 0 THEN 0 ELSE n)
                           /\ \A a \in T, b \in DOMAIN nm \ T :
                                  KeyCmp(a, b) >= 0 } }

\* ArtifactName.delete_version
NameDeleteVersion(nm, version, noop, files) ==
    IF version \in DOMAIN nm
    THEN LET r == DeleteInodes(nm[version], DOMAIN nm[version], noop, files)
         IN  [self |-> Pop(nm, version), fs |-> r.fs]
    ELSE [self |-> nm, fs |-> files]

\* ---- ArtifactList ----

\* ArtifactList.add_pkg
ListAddPkg(list, artifact, onlyifnewer) ==
    IF artifact.name # NoneName
    THEN LET l1 == IF artifact.name \notin DOMAIN list
                   THEN Put(list, artifact.name, EmptyDict)
                   ELSE list
             r  == NameAddArtifact(l1[artifact.name], artifact, onlyifnewer)
         IN  [self |-> Put(l1, artifact.name, r.self), ret |-> r.ret]
    ELSE [self |-> list, ret |-> "None"]

ListDeleteVersionKeepName(list, art_name, art_version, files) ==
    IF art_name \in DOMAIN list /\ art_version \in DOMAIN list[art_name]
    THEN LET r == NameDeleteVersion(list[art_name], art_version, FALSE, files)
         IN  [self |-> Put(list, art_name, r.self), fs |-> r.fs]
    ELSE [self |-> list, fs |-> files]

\* ArtifactList.delete_version
ListDeleteVersion(list, art_name, art_version, files) ==
    IF art_name \in DOMAIN list
    THEN LET r == IF art_version \in DOMAIN list[art_name]
                  THEN NameDeleteVersion(list[art_name], art_version,
                                         FALSE, files)
                  ELSE [self |-> list[art_name], fs |-> files]
         IN  [self |-> IF DOMAIN r.self = {}
                       THEN Pop(list, art_name)
                       ELSE Put(list, art_name, r.self),
              fs   |-> r.fs]
    ELSE [self |-> list, fs |-> files]

\* ArtifactVersion.get_artifacts, ArtifactName.get_artifacts(latest=0) and
\* ArtifactList.get_artifacts(latest=0) without a filter: the artifacts of
\* every group of every bucket of every name
ListGetArtifacts(list) ==
    { list[e[1]][e[2]][e[3]][e[4]] : e \in Entries(list) }

\* ---- Repo.delete_old (retention) ----

\* the loop "delete every version that is not kept" over one name index
RECURSIVE DeleteVersions(_, _, _, _)
DeleteVersions(nm, versions, noop, files) ==
    IF versions = {} THEN [self |-> nm, fs |-> files]
    ELSE LET v == CHOOSE x \in versions : TRUE
             r == NameDeleteVersion(nm, v, noop, files)
         IN  DeleteVersions(r.self, versions \ {v}, noop, r.fs)

\* retention over the names left to visit; keeps[n] is what get_latest
\* returned for name n
RECURSIVE RetainNames(_, _, _, _, _)
RetainNames(list, names, keeps, noop, files) ==
    IF names = {} THEN [self |-> list, fs |-> files]
    ELSE LET n == CHOOSE x \in names : TRUE
             r == IF keeps[n].none
                  THEN [self |-> list[n], fs |-> files]
                  ELSE DeleteVersions(list[n], DOMAIN list[n] \ keeps[n].keys,
                                      noop, files)
         IN  RetainNames(Put(list, n, r.self), names \ {n}, keeps, noop, r.fs)

\* Repo.delete_old(num_to_keep, noop): per name, keep get_latest(num_to_keep)
\* and delete_version every other version
delete_old(list, keeps, noop, files) ==
    RetainNames(list, DOMAIN list, keeps, noop, files)

\* the artifacts delete_old reports as removed
Removed(list, keeps) ==
    { list[e[1]][e[2]][e[3]][e[4]].path :
        e \in { x \in Entries(list) : x[2] \notin keeps[x[1]].keys } }

(***************************************************************************)
(* The state machine of the catalog.                                       *)
(***************************************************************************)
MaxAdds == 3

MaxKeep == 2

GroupPaths(group) == { group[k].path : k \in 1..Len(group) }

BucketPaths(bucket) == UNION { GroupPaths(bucket[i]) : i \in DOMAIN bucket }

\* last: the operation, its arguments (args, the noop or onlyifnewer flag,
\* the count), what it returned, and the paths of the artifacts it handled
\* (the artifact admitted by an add, the members a deletion removed or
\* logged as 'would have been removed')
\* and, for a query, the collection it returned (value)
OpValue(op, args, flag, num, result, paths, value) ==
    [op |-> op, args |-> args, flag |-> flag, num |-> num,
     result |-> result, paths |-> paths, value |-> value]

Op(op, args, flag, num, result, paths) ==
    OpValue(op, args, flag, num, result, paths, {})

NoOp == Op("none", << >>, FALSE, 0, "None", {})

CatalogInit ==
    /\ repo = EmptyDict
    /\ fs = AllPaths
    /\ last = NoOp
    /\ nadds = 0
    /\ hist = EmptyDict

CmpIdle ==
    /\ cmp_a = << >>
    /\ cmp_b = << >>
    /\ cmp_res = << >>

\* no run of the command line
NoArgs == [repoaction |-> "none", keep |-> 0, noop |-> FALSE,
           artifact_source |-> << >>, left |-> << >>]

CliIdle ==
    /\ pc = "idle"
    /\ cli = NoArgs
    /\ saved = EmptyDict
    /\ calls = << >>
    /\ exit_code = -1

\* no call of utils.download
DlIdle ==
    dl = [pc |-> "idle", tries |-> 0, arg |-> 0, responses |-> << >>,
          written |-> FALSE]

Init == CatalogInit /\ CmpIdle /\ CliIdle /\ DlIdle

\* repo.add_pkg(artifact, onlyifnewer)
AddPkg(artifact, onlyifnewer) ==
    /\ nadds < MaxAdds
    /\ nadds' = nadds + 1
    /\ LET r == ListAddPkg(repo, artifact, onlyifnewer)
       IN  /\ repo' = r.self
           /\ last' = Op("add_pkg", artifact.path, onlyifnewer, 0, r.ret,
                         IF r.ret = "True" THEN {artifact.path} ELSE {})
    /\ UNCHANGED << fs, hist, cmpVars, dl, cliVars >>

\* repo[name][version].delete_inode(inode, noop)
DeleteInode(name, version, inode, noop) ==
    /\ name \in DOMAIN repo
    /\ version \in DOMAIN repo[name]
    /\ LET r == VersionDeleteInode(repo[name][version], inode, noop, fs)
       IN  /\ repo' = Put(repo, name, Put(repo[name], version, r.self))
           /\ fs' = r.fs
    /\ last' = Op("delete_inode", << name, version, inode >>, noop, 0, "None",
                  IF inode \in DOMAIN repo[name][version]
                  THEN GroupPaths(repo[name][version][inode]) ELSE {})
    /\ UNCHANGED << nadds, hist, cmpVars, dl, cliVars >>

\* repo[name].delete_version(version, noop)
NameDelVersion(name, version, noop) ==
    /\ name \in DOMAIN repo
    /\ LET r == NameDeleteVersion(repo[name], version, noop, fs)
       IN  /\ repo' = Put(repo, name, r.self)
           /\ fs' = r.fs
    /\ last' = Op("name_delete_version", << name, version >>, noop, 0,
                  "None",
                  IF version \in DOMAIN repo[name]
                  THEN BucketPaths(repo[name][version]) ELSE {})
    /\ UNCHANGED << nadds, hist, cmpVars, dl, cliVars >>

\* repo.delete_version(art_name, art_version)
ListDelVersion(art_name, art_version) ==
    /\ LET r == ListDeleteVersion(repo, art_name, art_version, fs)
       IN  /\ repo' = r.self
           /\ fs' = r.fs
    /\ last' = Op("list_delete_version", << art_name, art_version >>, FALSE,
                  0, "None",
                  IF art_name \in DOMAIN repo
                     /\ art_version \in DOMAIN repo[art_name]
                  THEN BucketPaths(repo[art_name][art_version]) ELSE {})
    /\ UNCHANGED << nadds, hist, cmpVars, dl, cliVars >>

\* what get_latest(num) can return for every name of the catalog
KeepChoices(list, num) ==
    LET latest == [n \in DOMAIN list |-> get_latest(list[n], num)]
    IN  { k \in [DOMAIN list -> UNION { latest[n] : n \in DOMAIN list }] :
            \A n \in DOMAIN list : k[n] \in latest[n] }

\* repo.delete_old(num_to_keep, noop)
DeleteOld(num_to_keep, noop) ==
    /\ \E keeps \in KeepChoices(repo, num_to_keep) :
         LET r == delete_old(repo, keeps, noop, fs)
         IN  /\ repo' = r.self
             /\ fs' = r.fs
             /\ last' = Op("delete_old", << >>, noop, num_to_keep, "None",
                           Removed(repo, keeps))
    /\ UNCHANGED << nadds, hist, cmpVars, dl, cliVars >>

\* add_pkg(artifact) with the default onlyifnewer=False, counting the adds
Ingest(artifact) ==
    /\ nadds < MaxAdds
    /\ nadds' = nadds + 1
    /\ LET r   == ListAddPkg(repo, artifact, FALSE)
           key == << artifact.name, artifact.version, artifact.inode >>
       IN  /\ repo' = r.self
           /\ last' = Op("add_pkg", artifact.path, FALSE, 0, r.ret,
                         IF r.ret = "True" THEN {artifact.path} ELSE {})
           /\ hist' = IF r.ret = "True"
                      THEN Put(hist, key,
                               IF key \in DOMAIN hist THEN hist[key] + 1 ELSE 1)
                      ELSE hist
    /\ UNCHANGED << fs, cmpVars, dl, cliVars >>

AddStep ==
    \E artifact \in Artifacts, onlyifnewer \in BOOLEAN :
        AddPkg(artifact, onlyifnewer)

AddDefaultStep == \E artifact \in Artifacts : AddPkg(artifact, FALSE)

IngestStep == \E artifact \in Artifacts : Ingest(artifact)

DeleteInodeStep ==
    \E name \in Names, version \in CatVersions, inode \in Inodes,
       noop \in BOOLEAN :
        DeleteInode(name, version, inode, noop)

NameDelVersionStep ==
    \E name \in Names, version \in CatVersions, noop \in BOOLEAN :
        NameDelVersion(name, version, noop)

ListDelVersionStep ==
    \E art_name \in Names, art_version \in CatVersions :
        ListDelVersion(art_name, art_version)

DeleteOldStep ==
    \E num_to_keep \in 1..MaxKeep, noop \in BOOLEAN :
        DeleteOld(num_to_keep, noop)

Next ==
    \/ AddStep
    \/ DeleteInodeStep
    \/ NameDelVersionStep
    \/ ListDelVersionStep
    \/ DeleteOldStep

\* every operation of the catalog, in any order
Spec == Init /\ [][Next]_vars

\* ingestion alone, with the default onlyifnewer=False
SpecIngest == Init /\ [][IngestStep]_vars

\* ingestion and the deletions of the version bucket and of the name index
SpecDelete ==
    Init /\ [][AddDefaultStep \/ DeleteInodeStep \/ NameDelVersionStep]_vars

\* ingestion and retention
SpecRetain == Init /\ [][AddStep \/ DeleteOldStep]_vars

\* ingestion and the targeted removal of the catalog
SpecList == Init /\ [][AddStep \/ ListDelVersionStep]_vars

(***************************************************************************)
(* The version ordering applied to two strings of the pool.                *)
(***************************************************************************)
CmpInit ==
    /\ CatalogInit
    /\ CliIdle
    /\ DlIdle
    /\ cmp_a \in VersionPool
    /\ cmp_b \in VersionPool
    /\ cmp_res = << >>

\* cmp_res = << cmpfullver(cmp_a, cmp_b) >>
Compare ==
    /\ cmp_res = << >>
    /\ cmp_res' = << cmpfullver(cmp_a, cmp_b) >>
    /\ UNCHANGED << cmp_a, cmp_b, catalogVars, cliVars, dl >>

SpecCmp == CmpInit /\ [][Compare]_vars

(***************************************************************************)
(* Properties of the version ordering (SpecCmp).                           *)
(***************************************************************************)
Compared == cmp_res # << >>

\* C5: cmpfullver is a total order on version-release strings: the result
\* is -1, 0 or 1, cmpfullver(a, b) = -cmpfullver(b, a), and a < b and b < c
\* imply a < c, segments of mixed kind included.
C5_TotalOrder ==
    Compared =>
        LET r == cmp_res[1] IN
        /\ r \in {-1, 0, 1}
        /\ r = 0 - Cmp(cmp_b, cmp_a)
        /\ \A c \in VersionPool :
               (r < 0 /\ Cmp(cmp_b, c) < 0) => Cmp(cmp_a, c) < 0

\* two strings whose segments at one position are an integer and a string
\* have been compared
C5_Witness ==
    /\ cmp_a = v1_0__1_20170103101841_centos
    /\ cmp_b = v1_0__1_el7
    /\ cmp_res = << -1 >>

\* the pairs the documentation and the unit test order, lesser first
C6_Chain ==
    { << v0_0__1_el7, v0_1__1_el7 >>,
      << v0_1__1_el7, v1_0__1_el7 >>,
      << v1_0__1_el7, v1_0__1_20170103101841_centos >>,
      << v1_0__1_el7_centos, v1_0__1_20170103101841_centos >> }

\* C6: a non-numeric segment orders below a numeric one at the same
\* position, so each pair of C6_Chain compares as less than.
C6_MixedKindChain ==
    Compared =>
        \A p \in C6_Chain :
            (cmp_a = p[1] /\ cmp_b = p[2]) => cmp_res[1] < 0

DigitVal(c) == CHOOSE d \in 0..9 : Chars[d + 3] = c

RECURSIVE DigitsVal(_)
DigitsVal(s) ==
    IF Len(s) = 0 THEN 0
    ELSE 10 * DigitsVal(SubSeq(s, 1, Len(s) - 1)) + DigitVal(s[Len(s)])

\* the number an integer segment of at most nine digits stands for
IntVal(seg) == IF seg.neg THEN 0 - DigitsVal(seg.mag) ELSE DigitsVal(seg.mag)

SmallInt(seg) == seg.kind = "int" /\ Len(seg.mag) <= 9

MinLen(l1, l2) == IF Len(l1) < Len(l2) THEN Len(l1) ELSE Len(l2)

\* what the comparison of two segment lists must yield: decided by the first
\* position where they differ, numerically when both segments are integers
\* (2: the segments there are not two small integers, the sign is not
\* stated here), and the shorter list is the lesser when one is a prefix
Expected(l1, l2) ==
    LET diff == { i \in 1..MinLen(l1, l2) : l1[i] # l2[i] } IN
    IF diff # {}
    THEN LET i == CHOOSE j \in diff : \A k \in diff : j <= k IN
         IF SmallInt(l1[i]) /\ SmallInt(l2[i])
         THEN (IF IntVal(l1[i]) < IntVal(l2[i]) THEN -1 ELSE 1)
         ELSE 2
    ELSE IF Len(l1) < Len(l2) THEN -1
    ELSE IF Len(l1) > Len(l2) THEN 1
    ELSE 0

\* C7: two integer segments compare by value ("1.9-1" < "1.10-1"), the
\* version part decides first and the release part only when the version
\* parts compare equal, and a proper prefix of segments is the lesser.
C7_NumericAware ==
    Compared =>
        LET r  == cmp_res[1]
            pa == split(cmp_a, "-", 1)
            pb == split(cmp_b, "-", 1)
            ev == Expected(Segments(pa[1]), Segments(pb[1]))
            er == Expected(Segments(pa[2]), Segments(pb[2]))
        IN  /\ ev \in {-1, 1} => r = ev
            /\ ev = 2 => (r # 0 /\ r = cmpver(pa[1], pb[1]))
            /\ (ev = 0 /\ er # 2) => r = er
            /\ (ev = 0 /\ er = 2) => r # 0
            /\ (cmp_a = v1_9__1 /\ cmp_b = v1_10__1) => r < 0

\* "1.9-1" has been compared with "1.10-1"
C7_Witness ==
    /\ cmp_a = v1_9__1
    /\ cmp_b = v1_10__1
    /\ cmp_res = << -1 >>

(***************************************************************************)
(* Properties of the catalog.                                              *)
(***************************************************************************)
\* the version ordering on the versions of the artifacts
VerCmp(a, b) == cmpfullver(VersionChars(a), VersionChars(b))

KeysOf(list, name) == IF name \in DOMAIN list THEN DOMAIN list[name] ELSE {}

\* C1: add_artifact(artifact, onlyifnewer=True) admits the artifact exactly
\* when its version is strictly greater than every version keyed in the
\* name index; otherwise it returns False and leaves the index unchanged.
C1_OnlyIfNewerGate ==
    [][ \A art \in Artifacts :
          ( /\ art.name # NoneName
            /\ last'.op = "add_pkg"
            /\ last'.args = art.path
            /\ last'.flag ) =>
              LET newer == \A k \in KeysOf(repo, art.name) :
                               VerCmp(art.version, k) > 0
              IN  /\ newer => /\ last'.result = "True"
                              /\ art \in ListGetArtifacts(repo')
                  /\ ~newer => /\ last'.result = "False"
                               /\ repo' = repo ]_vars

\* C2: retention with noop=True leaves the catalog such that get_artifacts()
\* returns the same set of artifacts as before the call.
C2_DryRunPurity ==
    [][ (last'.op = "delete_old" /\ last'.flag) =>
            ListGetArtifacts(repo') = ListGetArtifacts(repo) ]_vars

\* C3: after a retention with keepCount k >= 1 and noop=False each name holds
\* exactly its min(k, number of versions) greatest versions, with their
\* buckets as they were, every other version is gone from the index, and no
\* path of an artifact under a removed version exists on disk.
C3_RetentionCorrect ==
    [][ (last'.op = "delete_old" /\ ~last'.flag /\ last'.num >= 1) =>
            /\ DOMAIN repo' = DOMAIN repo
            /\ \A n \in DOMAIN repo :
                  LET old == DOMAIN repo[n]
                      new == DOMAIN repo'[n]
                      k   == last'.num
                      t   == Cardinality(old)
                  IN  /\ new \subseteq old
                      /\ Cardinality(new) = (IF k < t THEN k ELSE t)
                      /\ \A a \in new, b \in old \ new : VerCmp(a, b) > 0
                      /\ \A a \in new : repo'[n][a] = repo[n][a]
                      /\ \A b \in old \ new :
                             BucketPaths(repo[n][b]) \cap fs' = {} ]_vars

\* a retention that kept the two greatest of three versions of "foo" and
\* removed the files of the third
C3_Witness ==
    /\ last.op = "delete_old"
    /\ ~last.flag
    /\ last.num = 2
    /\ last.paths # {}
    /\ "foo" \in DOMAIN repo
    /\ DOMAIN repo["foo"] = {"2.0", "3.0"}
    /\ last.paths \cap fs = {}

\* C4: a deletion called with noop=True (delete_inode, delete_version, and
\* ArtifactInode.delete under them) removes no file.
C4_NoopKeepsFiles ==
    [][ ( /\ last'.op \in {"delete_inode", "name_delete_version"}
          /\ last'.flag )
        => fs' = fs ]_vars

\* a delete_version with noop=True went over a bucket of several members,
\* and their files are all on disk
C4_Witness ==
    /\ last.op = "name_delete_version"
    /\ last.flag
    /\ Cardinality(last.paths) >= 2
    /\ last.paths \subseteq fs

\* C8: after any sequence of add_pkg calls with onlyifnewer=False every
\* bucket holds exactly one inode group per inode added under its (name,
\* version), and the group has as many members as adds made with that
\* (name, version, inode).
C8_CreateOrAppend ==
    /\ \A key \in DOMAIN hist :
          /\ key[1] \in DOMAIN repo
          /\ key[2] \in DOMAIN repo[key[1]]
          /\ key[3] \in DOMAIN repo[key[1]][key[2]]
          /\ Len(repo[key[1]][key[2]][key[3]]) = hist[key]
    /\ \A n \in DOMAIN repo : \A v \in DOMAIN repo[n] :
          \A i \in DOMAIN repo[n][v] : << n, v, i >> \in DOMAIN hist

\* the same (name, version, inode) was added twice
C8_Witness ==
    \E key \in DOMAIN hist :
        /\ hist[key] = 2
        /\ Len(repo[key[1]][key[2]][key[3]]) = 2

\* C9: every ArtifactVersion present in an ArtifactName holds at least one
\* inode group.
C9_BucketsNonEmpty ==
    \A n \in DOMAIN repo : \A v \in DOMAIN repo[n] : DOMAIN repo[n][v] # {}

VersionDelete(bucket, first, noop, files) ==
    IF DOMAIN bucket = {}
    THEN [self |-> bucket, fs |-> files, err |-> "None"]
    ELSE [self |-> Pop(bucket, first),
          fs   |-> InodeDelete(bucket[first], noop, files),
          err  |-> "RuntimeError"]

\* ArtifactName.delete
NameDelete(nm, first, noop, files) ==
    IF DOMAIN nm = {}
    THEN [self |-> nm, fs |-> files, err |-> "None"]
    ELSE LET r == DeleteInodes(nm[first], DOMAIN nm[first], noop, files)
         IN  [self |-> Pop(nm, first), fs |-> r.fs, err |-> "RuntimeError"]

\* ArtifactList.delete
ListDelete(list, first, files) ==
    IF DOMAIN list = {}
    THEN [self |-> list, fs |-> files, err |-> "None"]
    ELSE LET r == DeleteVersions(list[first], DOMAIN list[first], FALSE, files)
         IN  [self |-> Pop(list, first), fs |-> r.fs, err |-> "RuntimeError"]

NamePaths(nm) == UNION { BucketPaths(nm[v]) : v \in DOMAIN nm }

ListPaths(list) == UNION { NamePaths(list[n]) : n \in DOMAIN list }

\* the keys the iterator of dict d can serve first (0 stands for none)
FirstKeys(d) == IF DOMAIN d = {} THEN {0} ELSE DOMAIN d

\* repo[name][version].delete(noop)
VersionDel(name, version, noop) ==
    /\ name \in DOMAIN repo
    /\ version \in DOMAIN repo[name]
    /\ \E first \in FirstKeys(repo[name][version]) :
         LET r == VersionDelete(repo[name][version], first, noop, fs)
         IN  /\ repo' = Put(repo, name, Put(repo[name], version, r.self))
             /\ fs' = r.fs
             /\ last' = Op("version_delete", << name, version >>, noop,
                           Cardinality(DOMAIN repo[name][version]), r.err,
                           BucketPaths(repo[name][version]))
    /\ UNCHANGED << nadds, hist, cmpVars, dl, cliVars >>

\* repo[name].delete(noop)
NameDel(name, noop) ==
    /\ name \in DOMAIN repo
    /\ \E first \in FirstKeys(repo[name]) :
         LET r == NameDelete(repo[name], first, noop, fs)
         IN  /\ repo' = Put(repo, name, r.self)
             /\ fs' = r.fs
             /\ last' = Op("name_delete", << name >>, noop,
                           Cardinality(DOMAIN repo[name]), r.err,
                           NamePaths(repo[name]))
    /\ UNCHANGED << nadds, hist, cmpVars, dl, cliVars >>

\* repo.delete()
ListDel ==
    /\ \E first \in FirstKeys(repo) :
         LET r == ListDelete(repo, first, fs)
         IN  /\ repo' = r.self
             /\ fs' = r.fs
             /\ last' = Op("list_delete", << >>, FALSE,
                           Cardinality(DOMAIN repo), r.err, ListPaths(repo))
    /\ UNCHANGED << nadds, hist, cmpVars, dl, cliVars >>

VersionDelStep ==
    \E name \in Names, version \in CatVersions, noop \in BOOLEAN :
        VersionDel(name, version, noop)

NameDelStep == \E name \in Names, noop \in BOOLEAN : NameDel(name, noop)

ListDelStep == ListDel

\* ingestion and the deletion of whole containers
SpecWhole ==
    Init /\ [][AddDefaultStep \/ VersionDelStep \/ NameDelStep
               \/ ListDelStep]_vars

\* C11: ArtifactVersion.delete, ArtifactName.delete and ArtifactList.delete
\* called on a container of k >= 1 entries raise no error, leave the
\* container empty and, when not a dry run, leave none of its files on disk.
C11_WholeDeleteCompletes ==
    [][ ( /\ last'.op \in {"version_delete", "name_delete", "list_delete"}
          /\ last'.num >= 1 ) =>
            /\ last'.result = "None"
            /\ last'.op = "version_delete" =>
                   DOMAIN repo'[last'.args[1]][last'.args[2]] = {}
            /\ last'.op = "name_delete" => DOMAIN repo'[last'.args[1]] = {}
            /\ last'.op = "list_delete" => DOMAIN repo' = {}
            /\ ~last'.flag => last'.paths \cap fs' = {} ]_vars

(***************************************************************************)
(* The command line: one run of main() with the action 'add' or            *)
(* 'remove-old' on a repository loaded from its directory.                 *)
(***************************************************************************)
MaxSources == 2

\* one call on the repository
Call(op, src, num, flag) == [op |-> op, src |-> src, num |-> num, flag |-> flag]

\* the sequences of at most n elements of S
RECURSIVE SeqsUpTo(_, _)
SeqsUpTo(S, n) ==
    IF n = 0 THEN { << >> }
    ELSE LET shorter == SeqsUpTo(S, n - 1)
         IN  shorter \cup { Append(q, x) : q \in shorter, x \in S }

\* the artifacts the sources of the command line resolve to
SourceArtifacts == { a \in Artifacts : a.name = "foo" /\ a.inode = 1 /\ a.path[4] = "a" }

\* Repo(path): the index is rebuilt from the repository directory, here one
\* artifact of it; what is loaded is what the directory holds
Load(artifact) ==
    /\ pc = "idle"
    /\ artifact.name # NoneName
    /\ nadds < MaxAdds
    /\ nadds' = nadds + 1
    /\ LET r == ListAddPkg(repo, artifact, FALSE)
       IN  /\ repo' = r.self
           /\ saved' = r.self
           /\ last' = Op("load", artifact.path, FALSE, 0, r.ret, {artifact.path})
    /\ UNCHANGED << fs, hist, cmpVars, dl, pc, cli, calls, exit_code >>

\* main(): parse_args, get_repo, and the dispatch on args.repoaction
Main(repoaction, keep, noop, artifact_source) ==
    /\ pc = "idle"
    /\ nadds + Len(artifact_source) <= MaxAdds
    /\ cli' = [repoaction |-> repoaction, keep |-> keep, noop |-> noop,
               artifact_source |-> artifact_source, left |-> artifact_source]
    /\ pc' = IF repoaction = "add" THEN "do_add" ELSE "do_remove_old"
    /\ UNCHANGED << catalogVars, cmpVars, dl, saved, calls, exit_code >>

\* sys.exit(exit_code)
Exit(code) ==
    /\ pc' = "done"
    /\ exit_code' = code

\* do_add: "if args.keep_latest < 0"
AddRejects(keep_latest) == keep_latest < 0

\* do_remove_old: "if args.keep <= 0"
RemoveOldRejectsNegative(keep) == keep < 0

RemoveOldRejects(keep) == keep <= 0

AfterSourcesNoSave(keep_latest) ==
    IF keep_latest > 0 THEN "add_delete_old" ELSE "add_save"

\* do_add: where it goes on after the loop over the sources
AfterSources(keep_latest) ==
    IF keep_latest > 0 THEN "add_save_first" ELSE "add_save"

\* do_add: the check of --keep-latest
DoAddCheck ==
    /\ pc = "do_add"
    /\ IF AddRejects(cli.keep)
       THEN Exit(1)
       ELSE pc' = "add_source" /\ UNCHANGED exit_code
    /\ UNCHANGED << catalogVars, cmpVars, dl, cli, saved, calls >>

\* do_add: repo.add_source(art_src) for the next source
DoAddSource ==
    /\ pc = "add_source"
    /\ cli.left # << >>
    /\ LET artifact == Head(cli.left)
           r        == ListAddPkg(repo, artifact, FALSE)
       IN  /\ repo' = r.self
           /\ last' = Op("add_source", artifact.path, FALSE, 0, r.ret,
                         IF r.ret = "True" THEN {artifact.path} ELSE {})
           /\ calls' = Append(calls, Call("add_source", artifact.path, 0, FALSE))
    /\ nadds' = nadds + 1
    /\ cli' = [cli EXCEPT !.left = Tail(cli.left)]
    /\ UNCHANGED << fs, hist, cmpVars, dl, pc, saved, exit_code >>

\* do_add: the end of the loop over the sources
DoAddSourcesDone ==
    /\ pc = "add_source"
    /\ cli.left = << >>
    /\ pc' = AfterSources(cli.keep)
    /\ UNCHANGED << catalogVars, cmpVars, dl, cli, saved, calls, exit_code >>

\* do_add: the repo.save() before the retention
DoAddSaveFirst ==
    /\ pc = "add_save_first"
    /\ saved' = repo
    /\ calls' = Append(calls, Call("save", << >>, 0, FALSE))
    /\ pc' = "add_delete_old"
    /\ UNCHANGED << catalogVars, cmpVars, dl, cli, exit_code >>

\* repo.delete_old(num_to_keep, noop) called by the command line
CliDeleteOld(num_to_keep, noop) ==
    /\ \E keeps \in KeepChoices(repo, num_to_keep) :
         LET r == delete_old(repo, keeps, noop, fs)
         IN  /\ repo' = r.self
             /\ fs' = r.fs
             /\ last' = Op("delete_old", << >>, noop, num_to_keep, "None",
                           Removed(repo, keeps))
    /\ calls' = Append(calls, Call("delete_old", << >>, num_to_keep, noop))
    /\ UNCHANGED << nadds, hist, cmpVars, dl, cli, saved, exit_code >>

\* do_add: repo.delete_old(num_to_keep=args.keep_latest, noop=args.noop)
DoAddDeleteOld ==
    /\ pc = "add_delete_old"
    /\ CliDeleteOld(cli.keep, cli.noop)
    /\ pc' = "add_save"

\* do_add: the last repo.save(), and "return 0"
DoAddSave ==
    /\ pc = "add_save"
    /\ saved' = repo
    /\ calls' = Append(calls, Call("save", << >>, 0, FALSE))
    /\ Exit(0)
    /\ UNCHANGED << catalogVars, cmpVars, dl, cli >>

\* do_remove_old: the check of --keep
DoRemoveOldCheck ==
    /\ pc = "do_remove_old"
    /\ IF RemoveOldRejects(cli.keep)
       THEN Exit(1)
       ELSE pc' = "remove_delete_old" /\ UNCHANGED exit_code
    /\ UNCHANGED << catalogVars, cmpVars, dl, cli, saved, calls >>

\* do_remove_old: repo.delete_old(num_to_keep=args.keep, noop=args.noop)
DoRemoveOldDeleteOld ==
    /\ pc = "remove_delete_old"
    /\ CliDeleteOld(cli.keep, cli.noop)
    /\ pc' = "remove_save"

\* do_remove_old: repo.save(); it returns None, and sys.exit(None) exits
\* with status 0
DoRemoveOldSave ==
    /\ pc = "remove_save"
    /\ saved' = repo
    /\ calls' = Append(calls, Call("save", << >>, 0, FALSE))
    /\ Exit(0)
    /\ UNCHANGED << catalogVars, cmpVars, dl, cli >>

LoadStep == \E artifact \in SourceArtifacts : Load(artifact)

MainStep ==
    \E repoaction \in {"add", "remove-old"}, keep \in -1..MaxKeep,
       noop \in BOOLEAN, artifact_source \in SeqsUpTo(SourceArtifacts, MaxSources) :
        /\ repoaction = "remove-old" => artifact_source = << >>
        /\ Main(repoaction, keep, noop, artifact_source)

CliNext ==
    \/ LoadStep
    \/ MainStep
    \/ DoAddCheck
    \/ DoAddSource
    \/ DoAddSourcesDone
    \/ DoAddSaveFirst
    \/ DoAddDeleteOld
    \/ DoAddSave
    \/ DoRemoveOldCheck
    \/ DoRemoveOldDeleteOld
    \/ DoRemoveOldSave

\* one run of the command line on a loaded repository
SpecCli == Init /\ [][CliNext]_vars

\* the run ended
Done == pc = "done"

\* the calls of an operation the run made
CallsOf(op) == { i \in 1..Len(calls) : calls[i].op = op }

\* C12: remove-old with keep <= 0 exits with code 1 and calls neither
\* repo.delete_old nor repo.save, so that the catalog, the files on disk and
\* the persisted index stay as they were; with keep >= 1 delete_old is
\* called with exactly that count and the noop flag.
C12_InvalidKeepRejected ==
    /\ []( (Done /\ cli.repoaction = "remove-old" /\ cli.keep <= 0) =>
               (exit_code = 1 /\ calls = << >>) )
    /\ []( (Done /\ cli.repoaction = "remove-old" /\ cli.keep >= 1) =>
               /\ CallsOf("delete_old") # {}
               /\ \A i \in CallsOf("delete_old") :
                      calls[i] = Call("delete_old", << >>, cli.keep, cli.noop) )
    /\ [][ (cli.repoaction = "remove-old" /\ cli.keep <= 0) =>
               UNCHANGED << repo, fs, saved >> ]_vars

C12_Witness ==
    /\ Done
    /\ cli.repoaction = "remove-old"
    /\ cli.keep = 0
    /\ exit_code = 1
    /\ "foo" \in DOMAIN repo
    /\ Cardinality(DOMAIN repo["foo"]) >= 2
    /\ saved = repo

\* C13: 'add' exits with code 1 whenever --keep-latest is <= 0, zero
\* included, and then adds no source, deletes nothing and does not save; it
\* exits with code 0 only when --keep-latest is positive.
C13_AddRejectsNonPositive ==
    /\ (Done /\ cli.repoaction = "add" /\ cli.keep <= 0) =>
           (exit_code = 1 /\ calls = << >>)
    /\ (Done /\ cli.repoaction = "add" /\ exit_code = 0) => cli.keep > 0

\* the calls that add every source of the command line, in order
SourceCalls ==
    [i \in 1..Len(cli.artifact_source) |->
        Call("add_source", cli.artifact_source[i].path, 0, FALSE)]

SaveCall == Call("save", << >>, 0, FALSE)

\* C20: 'add' with keep_latest > 0 adds every source, then saves, then runs
\* delete_old, then saves again; 'remove-old' with keep >= 1 saves after
\* delete_old; a run that passed the validation of its arguments ends with
\* repo.save(); no delete_old runs before the added sources were saved.
C20_SaveOrder ==
    /\ (Done /\ cli.repoaction = "add" /\ cli.keep > 0) =>
           calls = SourceCalls \o << SaveCall,
                                     Call("delete_old", << >>, cli.keep, cli.noop),
                                     SaveCall >>
    /\ (Done /\ cli.repoaction = "remove-old" /\ cli.keep >= 1) =>
           \E i \in CallsOf("delete_old") : \E j \in CallsOf("save") : i < j
    /\ (Done /\ exit_code = 0) =>
           (calls # << >> /\ calls[Len(calls)] = SaveCall)
    /\ \A i \in CallsOf("delete_old") :
           /\ \A j \in CallsOf("add_source") :
                  \E k \in CallsOf("save") : j < k /\ k < i
           /\ Cardinality(CallsOf("add_source")) = Len(cli.artifact_source)

C20_Witness ==
    /\ Done
    /\ cli.repoaction = "add"
    /\ cli.keep = 1
    /\ ~cli.noop
    /\ Len(cli.artifact_source) = 2
    /\ Len(calls) = 5
    /\ last.op = "delete_old"
    /\ last.paths # {}
    /\ saved = repo

(***************************************************************************)
(* Queries: get_latest and get_artifacts.  A returned list of artifacts    *)
(* is the set of the positions of the index it was taken from.             *)
(***************************************************************************)

\* the filters of the model: a compiled regular expression is the string it
\* searches for, a filter function is named by what it tests, and "None"
\* is the argument left out
RegMatches == {"None", "foo", "b"}

FMatches == {"None", "inode_is_1"}

\* regmatch.search(path): the pattern occurs in the path
RegSearch(regmatch, path) == regmatch \in {path[1], path[2], path[4]}

\* fmatch(art)
FMatchCall(fmatch, art) ==
    CASE fmatch = "inode_is_1" -> art.inode = 1

InodeGetArtifactsBothFilters(group, regmatch, fmatch) ==
    { k \in 1..Len(group) :
        /\ regmatch # "None" => RegSearch(regmatch, group[k].path)
        /\ fmatch # "None" => FMatchCall(fmatch, group[k]) }

\* ArtifactInode.get_artifacts: the positions of the members returned
InodeGetArtifacts(group, regmatch, fmatch) ==
    IF regmatch # "None"
    THEN { k \in 1..Len(group) : RegSearch(regmatch, group[k].path) }
    ELSE IF fmatch # "None"
         THEN { k \in 1..Len(group) : FMatchCall(fmatch, group[k]) }
         ELSE 1..Len(group)

\* ArtifactVersion.get_artifacts
VersionGetArtifacts(bucket, regmatch, fmatch) ==
    UNION { { << i, k >> : k \in InodeGetArtifacts(bucket[i], regmatch, fmatch) }
            : i \in DOMAIN bucket }

\* ArtifactName.get_artifacts; latest_ret is what get_latest(num=latest)
\* returned, and None has no method values()
NameGetArtifacts(nm, regmatch, fmatch, latest, latest_ret) ==
    IF latest # 0 /\ latest_ret.none
    THEN [err |-> "AttributeError", arts |-> {}]
    ELSE LET versions == IF latest # 0 THEN latest_ret.keys ELSE DOMAIN nm
         IN  [err  |-> "None",
              arts |-> UNION { { << v >> \o e :
                                   e \in VersionGetArtifacts(nm[v], regmatch, fmatch) }
                               : v \in versions }]

\* ArtifactList.get_artifacts; keeps[n] is what get_latest returned for name n
ListGetArtifactsOf(list, regmatch, fmatch, latest, keeps) ==
    LET r == [n \in DOMAIN list |->
                 NameGetArtifacts(list[n], regmatch, fmatch, latest, keeps[n])]
    IN  IF \E n \in DOMAIN list : r[n].err # "None"
        THEN [err |-> "AttributeError", arts |-> {}]
        ELSE [err  |-> "None",
              arts |-> UNION { { << n >> \o e : e \in r[n].arts }
                               : n \in DOMAIN list }]

\* repo[name].get_latest(num)
GetLatest(name, num) ==
    /\ name \in DOMAIN repo
    /\ \E r \in get_latest(repo[name], num) :
         last' = OpValue("get_latest", << name >>, FALSE, num,
                         IF r.none THEN "None" ELSE "dict", {},
                         { << k >> : k \in r.keys })
    /\ UNCHANGED << repo, fs, nadds, hist, cmpVars, dl, cliVars >>

\* repo.get_artifacts(regmatch, fmatch, latest)
GetArtifacts(regmatch, fmatch, latest) ==
    /\ \E keeps \in KeepChoices(repo, latest) :
         LET r == ListGetArtifactsOf(repo, regmatch, fmatch, latest, keeps)
         IN  last' = OpValue("get_artifacts", << regmatch, fmatch >>, FALSE,
                             latest, r.err,
                             { repo[e[1]][e[2]][e[3]][e[4]].path : e \in r.arts },
                             r.arts)
    /\ UNCHANGED << repo, fs, nadds, hist, cmpVars, dl, cliVars >>

GetLatestStep ==
    \E name \in Names, num \in 0..MaxKeep : GetLatest(name, num)

GetArtifactsStep ==
    \E regmatch \in RegMatches, fmatch \in FMatches, latest \in 0..MaxKeep :
        GetArtifacts(regmatch, fmatch, latest)

\* ingestion, the deletion of versions, and get_latest
SpecLatest ==
    Init /\ [][AddDefaultStep \/ NameDelVersionStep \/ GetLatestStep]_vars

\* ingestion and get_artifacts
SpecFilter == Init /\ [][AddDefaultStep \/ GetArtifactsStep]_vars

\* ingestion, the deletion of versions, and the queries
SpecQuery ==
    Init /\ [][AddDefaultStep \/ NameDelVersionStep \/ GetLatestStep
               \/ GetArtifactsStep]_vars

\* the keys a get_latest returned
ReturnedKeys(op) == { e[1] : e \in op.value }

Min(a, b) == IF a < b THEN a ELSE b

\* C14: get_latest(n) on a name index of t >= 1 versions returns min(n, t)
\* buckets when n >= 1 and all t when n = 0, every returned version is
\* greater than or equal to every version not returned, and the name index
\* is not modified.
C14_GetLatest ==
    [][ ( /\ last'.op = "get_latest"
          /\ DOMAIN repo[last'.args[1]] # {} ) =>
            LET all  == DOMAIN repo[last'.args[1]]
                t    == Cardinality(all)
                n    == last'.num
                keys == ReturnedKeys(last')
            IN  /\ last'.result = "dict"
                /\ keys \subseteq all
                /\ Cardinality(keys) = IF n = 0 THEN t ELSE Min(n, t)
                /\ \A a \in keys, b \in all \ keys : VerCmp(a, b) >= 0
                /\ repo' = repo ]_vars

C14_Witness ==
    /\ last.op = "get_latest"
    /\ last.num = 2
    /\ last.args = << "foo" >>
    /\ DOMAIN repo["foo"] = {"1.0", "2.0", "3.0"}
    /\ ReturnedKeys(last) = {"2.0", "3.0"}

\* the name indexes of the catalog that hold no version
EmptyNames(list) == { n \in DOMAIN list : DOMAIN list[n] = {} }

\* C18: on a name index holding no versions get_latest(n) returns an empty
\* result for every n, and get_artifacts with latest != 0 returns without
\* error and contributes no artifact for that name.
C18_EmptyNameIndex ==
    [][ /\ ( /\ last'.op = "get_latest"
             /\ last'.args[1] \in EmptyNames(repo) ) =>
               (last'.result \in {"dict", "None"} /\ last'.value = {})
        /\ ( /\ last'.op = "get_artifacts"
             /\ last'.num # 0
             /\ EmptyNames(repo) # {} ) =>
               /\ last'.result = "None"
               /\ \A e \in last'.value : e[1] \notin EmptyNames(repo) ]_vars

\* the artifact at a position of the index
ArtifactAt(list, e) == list[e[1]][e[2]][e[3]][e[4]]

\* C19: get_artifacts(regmatch, fmatch, latest=0) returns exactly the
\* indexed artifacts whose path matches regmatch when regmatch is given
\* (fmatch is then ignored), exactly those for which fmatch is true when
\* only fmatch is given, all of them when neither is given; the catalog and
\* the filesystem are unchanged.
C19_OneFilter ==
    [][ (last'.op = "get_artifacts" /\ last'.num = 0) =>
          LET regmatch == last'.args[1]
              fmatch   == last'.args[2]
          IN  /\ last'.result = "None"
              /\ last'.value =
                   { e \in Entries(repo) :
                       IF regmatch # "None"
                       THEN RegSearch(regmatch, ArtifactAt(repo, e).path)
                       ELSE IF fmatch # "None"
                            THEN FMatchCall(fmatch, ArtifactAt(repo, e))
                            ELSE TRUE }
              /\ repo' = repo
              /\ fs' = fs ]_vars

C19_Witness ==
    /\ last.op = "get_artifacts"
    /\ last.num = 0
    /\ last.args = << "foo", "inode_is_1" >>
    /\ << "foo", "1.0", 2, 1 >> \in last.value
    /\ << "bar", "1.0", 1, 1 >> \in Entries(repo) \ last.value

(***************************************************************************)
(* Deletion with the calls on the filesystem spelled out.  os.remove(path) *)
(* raises OSError when the path does not exist and when the file cannot be *)
(* removed; bad is the set of the paths that cannot be removed.            *)
(***************************************************************************)

\* os.path.exists(path)
PathExists(path, files) == path \in files

\* os.remove(path)
OsRemove(path, files, bad) ==
    IF path \notin files \/ path \in bad
    THEN [fs |-> files, err |-> "OSError"]
    ELSE [fs |-> files \ {path}, err |-> "None"]

RECURSIVE InodeDeleteNoExistsCheck(_, _, _, _, _)
InodeDeleteNoExistsCheck(group, k, noop, files, bad) ==
    IF k > Len(group) THEN [fs |-> files, err |-> "None"]
    ELSE IF ~noop
         THEN LET r == OsRemove(group[k].path, files, bad)
              IN  IF r.err # "None" THEN r
                  ELSE InodeDeleteNoExistsCheck(group, k + 1, noop, r.fs, bad)
         ELSE InodeDeleteNoExistsCheck(group, k + 1, noop, files, bad)

\* ArtifactInode.delete from member k on: an OSError ends the loop
RECURSIVE InodeDeleteFrom(_, _, _, _, _)
InodeDeleteFrom(group, k, noop, files, bad) ==
    IF k > Len(group) THEN [fs |-> files, err |-> "None"]
    ELSE IF ~noop /\ PathExists(group[k].path, files)
         THEN LET r == OsRemove(group[k].path, files, bad)
              IN  IF r.err # "None" THEN r
                  ELSE InodeDeleteFrom(group, k + 1, noop, r.fs, bad)
         ELSE InodeDeleteFrom(group, k + 1, noop, files, bad)

\* ArtifactVersion.delete_inode: the group is popped after its delete
\* returned
VersionDeleteInodeOs(bucket, inode, noop, files, bad) ==
    IF inode \in DOMAIN bucket
    THEN LET r == InodeDeleteFrom(bucket[inode], 1, noop, files, bad)
         IN  IF r.err # "None"
             THEN [self |-> bucket, fs |-> r.fs, err |-> r.err]
             ELSE [self |-> Pop(bucket, inode), fs |-> r.fs, err |-> "None"]
    ELSE [self |-> bucket, fs |-> files, err |-> "None"]

\* the loop "for inode in self[version].keys(): delete_inode(inode, noop)"
\* from position k of the order of the keys on: an OSError ends the loop
RECURSIVE DeleteInodesInOrder(_, _, _, _, _, _)
DeleteInodesInOrder(bucket, order, k, noop, files, bad) ==
    IF k > Len(order) THEN [self |-> bucket, fs |-> files, err |-> "None"]
    ELSE LET r == VersionDeleteInodeOs(bucket, order[k], noop, files, bad)
         IN  IF r.err # "None" THEN r
             ELSE DeleteInodesInOrder(r.self, order, k + 1, noop, r.fs, bad)

\* ArtifactName.delete_version: the version is popped after the loop ended
NameDeleteVersionOs(nm, version, order, noop, files, bad) ==
    IF version \in DOMAIN nm
    THEN LET r == DeleteInodesInOrder(nm[version], order, 1, noop, files, bad)
         IN  IF r.err # "None"
             THEN [self |-> Put(nm, version, r.self), fs |-> r.fs, err |-> r.err]
             ELSE [self |-> Pop(nm, version), fs |-> r.fs, err |-> "None"]
    ELSE [self |-> nm, fs |-> files, err |-> "None"]

\* the orders in which a dict can serve the keys S
Orders(S) ==
    { q \in SeqsUpTo(S, Cardinality(S)) :
        { q[k] : k \in 1..Len(q) } = S }

\* the files whose removal can fail
FailPaths == { << "foo", "1.0", 1, "b" >>, << "foo", "1.0", 2, "a" >> }

\* repo[name][version][inode].delete(noop), with the removal of the paths of
\* bad failing
GroupDelete(name, version, inode, noop, bad) ==
    /\ name \in DOMAIN repo
    /\ version \in DOMAIN repo[name]
    /\ inode \in DOMAIN repo[name][version]
    /\ LET group == repo[name][version][inode]
           r     == InodeDeleteFrom(group, 1, noop, fs, bad)
       IN  /\ fs' = r.fs
           /\ last' = OpValue("inode_delete", << name, version, inode >>,
                              noop, Cardinality(GroupPaths(group) \ fs),
                              r.err, GroupPaths(group), bad)
    /\ UNCHANGED << repo, nadds, hist, cmpVars, dl, cliVars >>

\* repo[name].delete_version(version, noop), with the removal of the paths
\* of bad failing
NameDelVersionOs(name, version, noop, bad) ==
    /\ name \in DOMAIN repo
    /\ version \in DOMAIN repo[name]
    /\ \E order \in Orders(DOMAIN repo[name][version]) :
         LET r == NameDeleteVersionOs(repo[name], version, order, noop, fs, bad)
         IN  /\ repo' = Put(repo, name, r.self)
             /\ fs' = r.fs
             /\ last' = OpValue("name_delete_version", << name, version >>,
                                noop, Cardinality(DOMAIN repo[name][version]),
                                r.err, BucketPaths(repo[name][version]), bad)
    /\ UNCHANGED << nadds, hist, cmpVars, dl, cliVars >>

GroupDeleteStep ==
    \E name \in Names, version \in CatVersions, inode \in Inodes,
       noop \in BOOLEAN, bad \in SUBSET FailPaths :
        GroupDelete(name, version, inode, noop, bad)

NameDelVersionOsStep ==
    \E name \in Names, version \in CatVersions, noop \in BOOLEAN,
       bad \in SUBSET FailPaths :
        NameDelVersionOs(name, version, noop, bad)

\* ingestion and the deletion of the files of a group, some removals failing
SpecIdem == Init /\ [][AddDefaultStep \/ GroupDeleteStep]_vars

\* ingestion and the deletions, some removals failing
SpecRemove ==
    Init /\ [][AddDefaultStep \/ GroupDeleteStep \/ NameDelVersionOsStep]_vars

\* C15: ArtifactInode.delete(noop=False) on a group of which any subset of
\* the member files is already absent completes without error and leaves no
\* member's path on disk; run again, it succeeds and changes nothing.
C15_IdempotentDelete ==
    [][ ( /\ last'.op = "inode_delete"
          /\ ~last'.flag
          /\ last'.value = {} ) =>
            /\ last'.result = "None"
            /\ fs' = fs \ last'.paths
            /\ last'.paths \cap fs = {} => fs' = fs ]_vars

C15_Witness ==
    /\ last.op = "inode_delete"
    /\ ~last.flag
    /\ last.value = {}
    /\ last.result = "None"
    /\ Cardinality(last.paths) = 2
    /\ last.num = 1
    /\ last.paths \cap fs = {}

\* the groups of a bucket in which a member exists and cannot be removed
FailingGroups(bucket, files, bad) ==
    { i \in DOMAIN bucket : GroupPaths(bucket[i]) \cap files \cap bad # {} }

\* the members of a group from the first one whose removal fails on
RemainingMembers(group, files, bad) ==
    { k \in 1..Len(group) :
        \E j \in 1..k : group[j].path \in files \cap bad }

\* C16: when os.remove fails for a member of one inode group during
\* delete_version of a version with several groups, the failure is
\* surfaced, the remaining members of that group stay on disk and the group
\* stays in its bucket, files already removed are not restored, and the
\* other groups of the version are still deleted.
C16_RemovalFailurePolicy ==
    [][ ( /\ last'.op = "name_delete_version"
          /\ ~last'.flag
          /\ last'.num >= 2
          /\ Cardinality(FailingGroups(repo[last'.args[1]][last'.args[2]],
                                       fs, last'.value)) = 1 ) =>
            LET n       == last'.args[1]
                v       == last'.args[2]
                bucket  == repo[n][v]
                failing == FailingGroups(bucket, fs, last'.value)
            IN  /\ last'.result = "OSError"
                /\ v \in DOMAIN repo'[n]
                /\ \A i \in failing :
                       /\ i \in DOMAIN repo'[n][v]
                       /\ \A k \in RemainingMembers(bucket[i], fs, last'.value) :
                              bucket[i][k].path \in fs => bucket[i][k].path \in fs'
                /\ fs' \subseteq fs
                /\ \A i \in DOMAIN bucket \ failing :
                       /\ i \notin DOMAIN repo'[n][v]
                       /\ GroupPaths(bucket[i]) \cap fs' = {} ]_vars

(***************************************************************************)
(* Ingestion of versions that compare equal.                               *)
(***************************************************************************)
AddTieStep ==
    \E artifact \in TieArtifacts, onlyifnewer \in BOOLEAN :
        AddPkg(artifact, onlyifnewer)

\* ingestion, the versions that compare equal included
SpecKeys == Init /\ [][AddStep \/ AddTieStep]_vars

\* C17: in every state reachable by add_pkg no two distinct keys of one
\* name index compare equal under cmpfullver: artifacts of one name whose
\* versions compare equal ("1.01-1", "1.1-1") are in one and the same
\* bucket.
C17_UniqueVersionKeys ==
    \A n \in DOMAIN repo :
        \A a \in DOMAIN repo[n], b \in DOMAIN repo[n] :
            a # b => VerCmp(a, b) # 0

(***************************************************************************)
(* utils.download(path, dest_path, tries): one call, the server answering  *)
(* every request with a status code of its choice.                         *)
(***************************************************************************)
MaxTries == 3

\* the status codes the server answers with
StatusCodes == {200, 404, 503}

\* the truth value of a requests.Response: the status is not an error
ResponseOk(status_code) == status_code < 400

\* "not stream", stream being the last response received
NotStream(d) == ~ResponseOk(d.responses[Len(d.responses)])

\* download(path, dest_path, tries) is called
DownloadCall(tries) ==
    /\ dl.pc = "idle"
    /\ dl' = [dl EXCEPT !.pc = "head", !.tries = tries, !.arg = tries]
    /\ UNCHANGED << catalogVars, cmpVars, cliVars >>

\* requests.head(path), for the content-length
DownloadHead ==
    /\ dl.pc = "head"
    /\ dl' = [dl EXCEPT !.pc = "get"]
    /\ UNCHANGED << catalogVars, cmpVars, cliVars >>

\* stream = requests.get(path, stream=True), the first attempt
DownloadGet(status_code) ==
    /\ dl.pc = "get"
    /\ dl' = [dl EXCEPT !.pc = "while",
                        !.responses = Append(@, status_code)]
    /\ UNCHANGED << catalogVars, cmpVars, cliVars >>

\* "while not stream and tries": one more requests.get, and tries -= 1
DownloadRetry(status_code) ==
    /\ dl.pc = "while"
    /\ NotStream(dl) /\ dl.tries # 0
    /\ dl' = [dl EXCEPT !.responses = Append(@, status_code),
                        !.tries = @ - 1]
    /\ UNCHANGED << catalogVars, cmpVars, cliVars >>

\* the loop ended; "if not tries: raise Exception('Failed to download ...')"
DownloadAfterLoop ==
    /\ dl.pc = "while"
    /\ ~(NotStream(dl) /\ dl.tries # 0)
    /\ dl' = [dl EXCEPT !.pc = IF dl.tries = 0 THEN "raised" ELSE "write"]
    /\ UNCHANGED << catalogVars, cmpVars, cliVars >>

\* the body of the response is written to dest_path
DownloadWrite ==
    /\ dl.pc = "write"
    /\ dl' = [dl EXCEPT !.pc = "done", !.written = TRUE]
    /\ UNCHANGED << catalogVars, cmpVars, cliVars >>

DownloadCallStep == \E tries \in 0..MaxTries : DownloadCall(tries)

DownloadGetStep == \E status_code \in StatusCodes : DownloadGet(status_code)

DownloadRetryStep == \E status_code \in StatusCodes : DownloadRetry(status_code)

DownloadNext ==
    \/ DownloadCallStep
    \/ DownloadHead
    \/ DownloadGetStep
    \/ DownloadRetryStep
    \/ DownloadAfterLoop
    \/ DownloadWrite

\* one call of utils.download
SpecDownload == Init /\ [][DownloadNext]_vars

\* the GET attempts that were answered successfully
Succeeded(d) == { i \in 1..Len(d.responses) : ResponseOk(d.responses[i]) }

\* C21: download issues at most 1 + tries GET requests and stops retrying
\* at the first successful response; it raises 'Failed to download' only if
\* every GET attempt was unsuccessful, and whenever some attempt succeeded
\* it goes on to write the body to dest_path.
C21_DownloadRetries ==
    /\ Len(dl.responses) <= 1 + dl.arg
    /\ \A i \in Succeeded(dl) : i = Len(dl.responses)
    /\ dl.pc = "raised" => Succeeded(dl) = {}
    /\ (dl.pc \in {"raised", "done"} /\ Succeeded(dl) # {}) => dl.written

====
